---- MODULE Spec2Model ----
(***************************************************************************)
(* Video-Audio-Alignment-Toolkit: the alignment engine                     *)
(* (align_frames_to_transcript), the pipeline orchestrator (process_video, *)
(* with transcribe_audio, extract_audio, extract_frames, get_video_fps)    *)
(* and the subtitle timestamp formatter (_format_timestamp).               *)
(*                                                                         *)
(* Floats are modelled as exact rationals on grids where binary64          *)
(* arithmetic is exact: a time is an integer count of 1/TimeDen seconds,   *)
(* a sampling rate an integer count of 1/FpsDen frames per second (both    *)
(* denominators are powers of two), a native frame rate a reduced          *)
(* fraction [num, den].  A subtitle timestamp is the double nearest to a   *)
(* fraction, and its scaling to milliseconds is computed bit by bit as     *)
(* binary64 computes it.                                                   *)
(***************************************************************************)
EXTENDS Integers, Sequences, FiniteSets, TLC

VARIABLES
    \* ---- process_video: one entry per run ----
    pc,             \* position of each run in process_video
    video_path,     \* argument video_path (a name in VideoFiles)
    output_dir,     \* argument output_dir (a name in Dirs)
    fps,            \* argument fps, in 1/FpsDen frames per second
    audio_zero,     \* what line 153 observed: "unknown", "zero", "nonzero"
    segments,       \* local segments
    frame_count,    \* local frame_count
    video_fps,      \* local video_fps
    alignment,      \* local alignment (the value returned)
    error,          \* the exception that ended the run, "none" otherwise
    log,            \* history: the calls the run made, each with its outcome
    written,        \* history: the output files the run wrote in full
    \* ---- the file system under the output directories ----
    dir_exists,     \* output_dir exists
    audio_wav,      \* <dir>/audio.wav
    frames,         \* number of frame_*.jpg files in <dir>/frames
    alignment_json, \* <dir>/alignment.json
    metadata_json,  \* <dir>/metadata.json
    \* ---- direct calls of align_frames_to_transcript ----
    a_pc, a_segments, a_video_fps, a_extraction_fps, a_result,
    \* ---- direct calls of alignment_to_srt ----
    s_pc,           \* "ready", "written" or "failed"
    s_file,         \* the file at alignment_json_path
    s_alignment,    \* local alignment (what json.load returned)
    s_error,        \* the exception that ended the call, "none" otherwise
    s_lines         \* the lines of the .srt file written

pvars == <<pc, video_path, output_dir, fps, audio_zero, segments, frame_count,
           video_fps, alignment, error, log, written,
           dir_exists, audio_wav, frames, alignment_json, metadata_json>>
avars == <<a_pc, a_segments, a_video_fps, a_extraction_fps, a_result>>
svars == <<s_pc, s_file, s_alignment, s_error, s_lines>>
vars == <<pvars, avars, svars>>

-----------------------------------------------------------------------------
(* Number representation *)

\* Times are counted in 1/TimeDen seconds, sampling rates in 1/FpsDen fps.
TimeDen == 4
FpsDen == 2

Max(a, b) == IF a >= b THEN a ELSE b

Abs(n) == IF n < 0 THEN -n ELSE n

RECURSIVE Gcd(_, _)
Gcd(a, b) == IF b = 0 THEN a ELSE Gcd(b, a % b)

\* The float num/den (den # 0), as a reduced fraction with den > 0.
Rat(num, den) ==
    LET g == Gcd(Abs(num), Abs(den))
        s == IF den < 0 THEN -1 ELSE 1
    IN  [num |-> s * (num \div g), den |-> s * (den \div g)]

\* Python int() of the float num/den, den > 0: truncation toward zero.
int(num, den) == IF num >= 0 THEN num \div den ELSE -((-num) \div den)

\* math.floor of num/den, den > 0 (the floor the claims are stated with).
Floor(num, den) == num \div den

-----------------------------------------------------------------------------
(* Text: a string is the sequence of its characters' code points. *)

\* str.isspace() of one character: the characters str.strip() removes (tab to
\* carriage return, the four separators below the space, the space, next line,
\* no-break space and the Unicode spaces).
IsSpace(c) ==
    \/ c \in 9..13
    \/ c \in 28..32
    \/ c \in {133, 160, 5760}
    \/ c \in 8192..8202
    \/ c \in {8232, 8233, 8239, 8287, 12288}

RECURSIVE LStrip(_)
LStrip(s) == IF s # <<>> /\ IsSpace(Head(s)) THEN LStrip(Tail(s)) ELSE s

RECURSIVE RStrip(_)
RStrip(s) ==
    IF s # <<>> /\ IsSpace(s[Len(s)]) THEN RStrip(SubSeq(s, 1, Len(s) - 1)) ELSE s

\* str.strip()
Strip(s) == RStrip(LStrip(s))

\* dict.get(key, default)
Get(d, key, default) == IF key \in DOMAIN d THEN d[key] ELSE default

-----------------------------------------------------------------------------
(* align_frames_to_transcript *)

\* Mutant of AlignEntry: start_frame is not clamped at 0.
AlignEntry_noClamp(segment, v_fps, extraction_fps) ==
    LET start_time == segment.start_time
        end_time == segment.end_time
        start_frame == int(start_time * extraction_fps, TimeDen * FpsDen)
        end_frame == Max(start_frame, int(end_time * extraction_fps, TimeDen * FpsDen))
    IN  [text |-> segment.text,
         start_time |-> start_time,
         end_time |-> end_time,
         start_frame |-> start_frame,
         end_frame |-> end_frame,
         video_fps |-> v_fps]

\* Mutant of AlignEntry: the frame indices are computed at the native rate.
AlignEntry_byVideoFps(segment, v_fps, extraction_fps) ==
    LET start_time == segment.start_time
        end_time == segment.end_time
        start_frame == Max(0, int(start_time * v_fps.num, TimeDen * v_fps.den))
        end_frame == Max(start_frame, int(end_time * v_fps.num, TimeDen * v_fps.den))
    IN  [text |-> segment.text,
         start_time |-> start_time,
         end_time |-> end_time,
         start_frame |-> start_frame,
         end_frame |-> end_frame,
         video_fps |-> v_fps]

\* The body of the loop: the entry built for one segment.
AlignEntry(segment, v_fps, extraction_fps) ==
    LET start_time == segment.start_time
        end_time == segment.end_time
        start_frame == Max(0, int(start_time * extraction_fps, TimeDen * FpsDen))
        end_frame == Max(start_frame, int(end_time * extraction_fps, TimeDen * FpsDen))
    IN  [text |-> segment.text,
         start_time |-> start_time,
         end_time |-> end_time,
         start_frame |-> start_frame,
         end_frame |-> end_frame,
         video_fps |-> v_fps]

\* Mutant of AlignLoop: each entry is put in front of the earlier ones.
RECURSIVE AlignLoop_prepends(_, _, _, _)
AlignLoop_prepends(aligned, rest, v_fps, extraction_fps) ==
    IF rest = <<>> THEN aligned
    ELSE AlignLoop_prepends(<<AlignEntry(Head(rest), v_fps, extraction_fps)>> \o aligned,
                            Tail(rest), v_fps, extraction_fps)

RECURSIVE AlignLoop(_, _, _, _)
AlignLoop(aligned, rest, v_fps, extraction_fps) ==
    IF rest = <<>> THEN aligned
    ELSE AlignLoop(Append(aligned, AlignEntry(Head(rest), v_fps, extraction_fps)),
                   Tail(rest), v_fps, extraction_fps)

IsOrdered(segment) == segment.end_time >= segment.start_time

\* Mutant of align_frames_to_transcript: segments that end before they start
\* are left out.
align_dropsInverted(segs, v_fps, extraction_fps) ==
    AlignLoop(<<>>, SelectSeq(segs, IsOrdered), v_fps, extraction_fps)

align_frames_to_transcript(segs, v_fps, extraction_fps) ==
    AlignLoop(<<>>, segs, v_fps, extraction_fps)

-----------------------------------------------------------------------------
(* transcribe_audio: the loop over the model's result *)

RECURSIVE SegmentLoop(_, _)
SegmentLoop(out, rest) ==
    IF rest = <<>> THEN out
    ELSE LET segment == Head(rest)
             text == Strip(Get(segment, "text", <<>>))
         IN  IF text = <<>>
             THEN SegmentLoop(out, Tail(rest))
             ELSE SegmentLoop(Append(out, [text |-> text,
                                           start_time |-> Get(segment, "start", 0),
                                           end_time |-> Get(segment, "end", 0)]),
                              Tail(rest))

\* result.get("segments", [])  and the loop
ResultSegments(result) == SegmentLoop(<<>>, Get(result, "segments", <<>>))

-----------------------------------------------------------------------------
(* get_video_fps, after a successful probe *)

\* The streams of the probe whose codec_type is "video", in order.
VideoStreams(probe) ==
    LET streams == Get(probe, "streams", <<>>)
        F[i \in 0..Len(streams)] ==
            IF i = 0 THEN <<>>
            ELSE IF Get(streams[i], "codec_type", "") = "video"
                 THEN Append(F[i - 1], streams[i])
                 ELSE F[i - 1]
    IN  F[Len(streams)]

\* any(stream.get("codec_type") == "audio" ...)
HasAudioStream(probe) ==
    LET streams == Get(probe, "streams", <<>>)
    IN  \E i \in 1..Len(streams) : Get(streams[i], "codec_type", "") = "audio"

\* A frame-rate string "n/d" is the pair <<n, d>>; an absent or empty one is <<>>.
\* The value returned when a video stream exists.
FpsOfStream(stream) ==
    LET avg_frame_rate == Get(stream, "avg_frame_rate", <<>>)
    IN  IF avg_frame_rate = <<>> \/ avg_frame_rate = <<0, 0>>
        THEN Rat(Get(stream, "r_frame_rate", <<0, 1>>)[1], 1)
        ELSE IF avg_frame_rate[2] # 0
             THEN Rat(avg_frame_rate[1], avg_frame_rate[2])
             ELSE Rat(avg_frame_rate[1], 1)

-----------------------------------------------------------------------------
(* _format_timestamp and the loop of alignment_to_srt.  A timestamp        *)
(* [num, den], den > 0, is the double nearest to num/den (what the float     *)
(* literal or the division gives).  The arithmetic of line 14 is done as     *)
(* binary64 does it: a positive double is sig / 2^scale with sig a whole     *)
(* number of at most 53 bits, held as its bits, most significant first.      *)

Min(a, b) == IF a <= b THEN a ELSE b

\* The w bits of the number v < 2^w.
Word(v, w) == [i \in 1..w |-> (v \div 2 ^ (w - i)) % 2]

\* bits without its leading zeros.
Normal(bits) ==
    LET ones == {i \in 1..Len(bits) : bits[i] = 1}
    IN  IF ones = {} THEN <<>>
        ELSE SubSeq(bits, CHOOSE i \in ones : \A j \in ones : i <= j, Len(bits))

\* The bits of n, 0 <= n < 2^31.
BitsOf(n) == Normal(Word(n, 31))

\* The number whose bits are bits (at most 31 of them), taken by halves.
RECURSIVE ValueOf(_)
ValueOf(bits) ==
    IF bits = <<>> THEN 0
    ELSE IF Len(bits) = 1 THEN bits[1]
    ELSE LET half == Len(bits) \div 2
         IN  ValueOf(SubSeq(bits, 1, half)) * 2 ^ (Len(bits) - half)
                 + ValueOf(SubSeq(bits, half + 1, Len(bits)))

\* bits + 1
Inc(bits) ==
    LET zeros == {i \in 1..Len(bits) : bits[i] = 0}
    IN  IF zeros = {} THEN <<1>> \o [i \in 1..Len(bits) |-> 0]
        ELSE LET last == CHOOSE i \in zeros : \A j \in zeros : j <= i
             IN  [i \in 1..Len(bits) |->
                    IF i < last THEN bits[i] ELSE IF i = last THEN 1 ELSE 0]

\* Mutant of RoundBits: the bits cut off are dropped.
RoundBits_truncates(bits, keep) == SubSeq(bits, 1, keep)

\* The first keep bits of bits, rounded by the bits cut off: to the nearest, a
\* tie to the even one (the rounding of binary64 arithmetic and of round()).
RoundBits(bits, keep) ==
    LET kept == SubSeq(bits, 1, keep)
        odd == keep > 0 /\ bits[keep] = 1
        guard == keep < Len(bits) /\ bits[keep + 1] = 1
        sticky == \E i \in (keep + 2)..Len(bits) : bits[i] = 1
    IN  IF guard /\ (sticky \/ odd) THEN Inc(kept) ELSE kept

\* The first k bits of the binary expansion of rem/den, 0 <= rem < den < 2^23,
\* eight at a time.
RECURSIVE FracBits(_, _, _)
FracBits(rem, den, k) ==
    IF k = 0 THEN <<>>
    ELSE LET w == Min(k, 8)
             v == rem * 2 ^ w
         IN  Word(v \div den, w) \o FracBits(v % den, den, k - w)

\* What is left of rem/den after its first k bits: (rem * 2^k) % den.
RECURSIVE FracRem(_, _, _)
FracRem(rem, den, k) ==
    IF k = 0 THEN rem
    ELSE LET w == Min(k, 8)
         IN  FracRem((rem * 2 ^ w) % den, den, k - w)

\* The number of zero bits the expansion of rem/den starts with, 0 < rem < den.
LeadingZeros(rem, den) == CHOOSE z \in 0..31 : den <= rem * 2 ^ (z + 1) /\ rem * 2 ^ z < den

\* The double nearest to num/den, num > 0: the expansion is cut after 54
\* significant bits, a further bit tells whether anything is left, and the
\* whole is rounded to 53 bits.
Double(num, den) ==
    LET whole == BitsOf(num \div den)
        rem == num % den
        scale == IF whole # <<>> THEN 54 - Len(whole)
                 ELSE 54 + LeadingZeros(rem, den)
        left == IF FracRem(rem, den, scale) # 0 THEN 1 ELSE 0
        bits == Normal(whole \o FracBits(rem, den, scale))
    IN  [sig |-> RoundBits(Append(bits, left), 53), scale |-> scale - 1]

\* bits * k + carry for k < 2^20, eight bits at a time from the low end.
RECURSIVE TimesSmall(_, _, _)
TimesSmall(bits, k, carry) ==
    IF bits = <<>> THEN BitsOf(carry)
    ELSE LET w == Min(Len(bits), 8)
             v == ValueOf(SubSeq(bits, Len(bits) - w + 1, Len(bits))) * k + carry
         IN  TimesSmall(SubSeq(bits, 1, Len(bits) - w), k, v \div 2 ^ w)
                 \o Word(v % 2 ^ w, w)

\* The double x * k: the exact product rounded to 53 bits.
DoubleTimes(x, k) ==
    LET product == Normal(TimesSmall(x.sig, k, 0))
        cut == IF Len(product) > 53 THEN Len(product) - 53 ELSE 0
    IN  [sig |-> RoundBits(product, Len(product) - cut), scale |-> x.scale - cut]

\* round(x) for a double x = sig / 2^scale, scale > 0, below 2^31.
DoubleRound(x) ==
    LET bits == [i \in 1..Max(0, x.scale - Len(x.sig)) |-> 0] \o x.sig
    IN  ValueOf(RoundBits(bits, Len(bits) - x.scale))

\* int(round(seconds * 1000))
Millis(seconds) ==
    IF seconds.num = 0 THEN 0
    ELSE IF seconds.num < 0
         THEN -DoubleRound(DoubleTimes(Double(-seconds.num, seconds.den), 1000))
         ELSE DoubleRound(DoubleTimes(Double(seconds.num, seconds.den), 1000))

\* The character of the decimal digit d: "0" is 48.
DigitChar(d) == 48 + d

RECURSIVE Digits(_)
Digits(n) == IF n < 10 THEN <<DigitChar(n)>> ELSE Digits(n \div 10) \o <<DigitChar(n % 10)>>

RECURSIVE ZeroPad(_, _)
ZeroPad(s, width) == IF Len(s) >= width THEN s ELSE ZeroPad(<<DigitChar(0)>> \o s, width)

\* f"{n:0<width>d}"; "-" is 45.
FormatInt(n, width) ==
    IF n < 0 THEN <<45>> \o ZeroPad(Digits(-n), width - 1) ELSE ZeroPad(Digits(n), width)

_format_timestamp(seconds) ==
    LET millis == Millis(seconds)
        hours == millis \div 3600000
        remainder == millis % 3600000
        minutes == remainder \div 60000
        remainder2 == remainder % 60000
        secs == remainder2 \div 1000
        millis2 == remainder2 % 1000
    IN  \* ":" is 58, "," is 44
        FormatInt(hours, 2) \o <<58>> \o FormatInt(minutes, 2) \o <<58>>
            \o FormatInt(secs, 2) \o <<44>> \o FormatInt(millis2, 3)

\* "[inaudible]"
Inaudible == <<91, 105, 110, 97, 117, 100, 105, 98, 108, 101, 93>>

\* The four lines added for the segment numbered idx (lines 52-56).
SrtEntry(idx, segment) ==
    LET start_time == _format_timestamp(segment.start_time)
        end_time == _format_timestamp(segment.end_time)
        text == IF Strip(segment.text) # <<>> THEN Strip(segment.text) ELSE Inaudible
    IN  <<Digits(idx),
          \* " --> "
          start_time \o <<32, 45, 45, 62, 32>> \o end_time,
          text,
          <<>> >>

\* The lines of the subtitle file for an alignment (lines 50-56).
SrtLines(alignment_list) ==
    LET F[i \in 0..Len(alignment_list)] ==
            IF i = 0 THEN <<>> ELSE F[i - 1] \o SrtEntry(i, alignment_list[i])
    IN  F[Len(alignment_list)]

-----------------------------------------------------------------------------
(* The world process_video runs in *)

Runs == {"r1", "r2"}
Dirs == {"out1", "out2"}

\* The largest number of frames one run of the frame sampler writes.
MaxFrames == 1

\* Sampling rates given to process_video: 0, 1.0 and 1.5 frames per second.
FpsValues == {0, FpsDen, FpsDen + 1}

\* The video files: whether the path exists, what ffmpeg.probe reports for it and
\* what the speech model returns for its audio track (times in 1/TimeDen s).
VideoFiles ==
    [v \in {"missing.mp4", "silent.mp4", "talk.mp4", "hum.mp4", "radio.mp4"} |->
        CASE v = "missing.mp4" ->
                [exists |-> FALSE, probe |-> [format |-> "none"],
                 speech |-> [text |-> <<>>]]
          [] v = "silent.mp4" ->
                [exists |-> TRUE,
                 probe |-> [streams |-> <<[codec_type |-> "video",
                                           avg_frame_rate |-> <<24, 1>>,
                                           r_frame_rate |-> <<24, 1>>]>>],
                 speech |-> [text |-> <<>>]]
          [] v = "talk.mp4" ->
                [exists |-> TRUE,
                 probe |-> [streams |-> <<[codec_type |-> "audio"],
                                          [codec_type |-> "video",
                                           avg_frame_rate |-> <<30000, 1001>>,
                                           r_frame_rate |-> <<30, 1>>]>>],
                 \* the segment texts are "\t hi", "\n" + U+3000, "yo" + U+00A0
                 \* and "o"
                 speech |-> [text |-> <<32, 104, 105, 32, 121, 111>>,
                             segments |->
                                <<[text |-> <<9, 32, 104, 105>>, start |-> 6, end |-> 10],
                                  [text |-> <<10, 12288>>, start |-> 10, end |-> 11],
                                  [text |-> <<121, 111, 160>>, start |-> 5, end |-> 3],
                                  [text |-> <<111>>, end |-> 9]>>]]
          [] v = "hum.mp4" ->
                [exists |-> TRUE,
                 probe |-> [streams |-> <<[codec_type |-> "video",
                                           avg_frame_rate |-> <<0, 0>>,
                                           r_frame_rate |-> <<25, 1>>],
                                          [codec_type |-> "audio"]>>],
                 \* the one segment text is a vertical tab
                 speech |-> [text |-> <<32>>,
                             segments |-> <<[text |-> <<11>>, start |-> 0, end |-> 8],
                                            [start |-> 8, end |-> 12]>>]]
          [] OTHER ->
                [exists |-> TRUE,
                 probe |-> [streams |-> <<[codec_type |-> "audio"]>>],
                 speech |-> [text |-> <<>>]]]

Videos == DOMAIN VideoFiles

\* audio.wav: absent, empty (zero bytes) or the audio track of a video.
NoFile == [state |-> "absent", of |-> "none"]
EmptyFile == [state |-> "empty", of |-> "none"]
AudioOf(v) == [state |-> "data", of |-> v]

\* alignment.json and metadata.json.  state is "absent"; "empty" (truncated by
\* the open of run writer); "written" (exactly the JSON text of content, written
\* by run writer); "mixed" (the text of content, written by run writer over a
\* longer text whose tail still follows it: not valid JSON); "partial" (only the
\* beginning of the text of run writer, whose dump failed part-way: not valid
\* JSON); or "overlaid" (the beginning of the text of run writer, whose dump
\* failed part-way, over the start of what other writes had left; what it holds
\* is not modelled).  content is the empty value where no whole text is held.
NoMetadata ==
    [video_path |-> "", audio_path |-> "", frame_dir |-> "", frame_count |-> 0,
     video_fps |-> Rat(0, 1), extraction_fps |-> 0]
NoAlignmentFile == [state |-> "absent", writer |-> "none", content |-> <<>>]
NoMetadataFile == [state |-> "absent", writer |-> "none", content |-> NoMetadata]

-----------------------------------------------------------------------------
(* process_video *)

\* An entry of a run's log: a call that returned ("ok"), with what it returned or
\* wrote when that matters later (0 otherwise), or the call in which an exception
\* was raised ("raised"; the callers it passes through are not logged again).
Call(name, outcome, result) == [call |-> name, outcome |-> outcome, result |-> result]

Returned(r, name, result) ==
    log' = [log EXCEPT ![r] = Append(@, Call(name, "ok", result))]

Logged(r, name, outcome) ==
    log' = [log EXCEPT ![r] = Append(@, Call(name, outcome, 0))]

\* An exception leaves process_video: nothing in it catches one.
Raise(r, exc) ==
    /\ pc' = [pc EXCEPT ![r] = "failed"]
    /\ error' = [error EXCEPT ![r] = exc]

Goto(r, label) ==
    /\ pc' = [pc EXCEPT ![r] = label]
    /\ UNCHANGED error

\* Lines 144-149: the existence check, then output_dir.mkdir.
Validate(r) ==
    /\ pc[r] = "validate"
    /\ IF ~VideoFiles[video_path[r]].exists
       THEN /\ Raise(r, "FileNotFoundError")
            /\ UNCHANGED <<dir_exists, log>>
       ELSE /\ Goto(r, "extract_audio")
            /\ dir_exists' = [dir_exists EXCEPT ![output_dir[r]] = TRUE]
            /\ Logged(r, "mkdir", "ok")
    /\ UNCHANGED <<video_path, output_dir, fps, audio_zero, segments, frame_count,
                   video_fps, alignment, written, audio_wav, frames,
                   alignment_json, metadata_json>>

\* extract_audio: ffmpeg.probe raises.
ExtractAudioProbeError(r) ==
    /\ Raise(r, "RuntimeError")
    /\ Logged(r, "extract_audio", "raised")
    /\ UNCHANGED audio_wav

\* extract_audio: no audio stream, output_path.touch() (an existing file is kept).
ExtractAudioNoStream(r) ==
    /\ ~HasAudioStream(VideoFiles[video_path[r]].probe)
    /\ Goto(r, "stat_audio")
    /\ Logged(r, "extract_audio", "ok")
    /\ audio_wav' = [audio_wav EXCEPT ![output_dir[r]] =
                        IF @.state = "absent" THEN EmptyFile ELSE @]

\* extract_audio: ffmpeg writes the WAV file over any existing one.
ExtractAudioRun(r) ==
    /\ HasAudioStream(VideoFiles[video_path[r]].probe)
    /\ Goto(r, "stat_audio")
    /\ Logged(r, "extract_audio", "ok")
    /\ audio_wav' = [audio_wav EXCEPT ![output_dir[r]] = AudioOf(video_path[r])]

\* extract_audio: ffmpeg raises; the output is untouched or was opened and left empty.
ExtractAudioRunError(r) ==
    /\ HasAudioStream(VideoFiles[video_path[r]].probe)
    /\ Raise(r, "RuntimeError")
    /\ Logged(r, "extract_audio", "raised")
    /\ \E truncated \in BOOLEAN :
          audio_wav' = [audio_wav EXCEPT ![output_dir[r]] =
                            IF truncated THEN EmptyFile ELSE @]

\* Line 152.
ExtractAudio(r) ==
    /\ pc[r] = "extract_audio"
    /\ \/ ExtractAudioProbeError(r)
       \/ ExtractAudioNoStream(r)
       \/ ExtractAudioRun(r)
       \/ ExtractAudioRunError(r)
    /\ UNCHANGED <<video_path, output_dir, fps, audio_zero, segments, frame_count,
                   video_fps, alignment, written, dir_exists, frames,
                   alignment_json, metadata_json>>

\* Mutant of AfterEmptyAudio: no frames are extracted when the audio is empty.
AfterEmptyAudio_skipsFrames == "probe_fps"

\* Where process_video goes on after finding the audio empty (lines 159-165).
AfterEmptyAudio == "extract_frames"

\* Lines 153-161: the size of the extracted audio decides whether to transcribe.
StatAudio(r) ==
    /\ pc[r] = "stat_audio"
    /\ IF audio_wav[output_dir[r]].state = "empty"
       THEN /\ audio_zero' = [audio_zero EXCEPT ![r] = "zero"]
            /\ segments' = [segments EXCEPT ![r] = <<>>]
            /\ Goto(r, AfterEmptyAudio)
       ELSE /\ audio_zero' = [audio_zero EXCEPT ![r] = "nonzero"]
            /\ UNCHANGED segments
            /\ Goto(r, "transcribe")
    /\ UNCHANGED <<video_path, output_dir, fps, frame_count, video_fps, alignment,
                   log, written, dir_exists, audio_wav, frames,
                   alignment_json, metadata_json>>

\* transcribe_audio, lines 47-57: the file is missing, or empty (no model is loaded).
TranscribeNoModel(r) ==
    LET audio == audio_wav[output_dir[r]]
    IN  /\ audio.state # "data"
        /\ IF audio.state = "absent"
           THEN /\ Raise(r, "FileNotFoundError")
                /\ Logged(r, "transcribe_audio", "raised")
                /\ UNCHANGED segments
           ELSE /\ Goto(r, "extract_frames")
                /\ Returned(r, "transcribe_audio", <<>>)
                /\ segments' = [segments EXCEPT ![r] = <<>>]

\* transcribe_audio, lines 59-81: the model transcribes the file.
TranscribeModel(r) ==
    LET audio == audio_wav[output_dir[r]]
    IN  /\ audio.state = "data"
        /\ Goto(r, "extract_frames")
        /\ segments' = [segments EXCEPT ![r] = ResultSegments(VideoFiles[audio.of].speech)]
        /\ log' = [log EXCEPT ![r] = @ \o <<Call("whisper", "ok", 0),
                                             Call("transcribe_audio", "ok", segments'[r])>>]

\* transcribe_audio, lines 59-65: the model raises.
TranscribeModelError(r) ==
    /\ audio_wav[output_dir[r]].state = "data"
    /\ Raise(r, "ModelError")
    /\ Logged(r, "whisper", "raised")
    /\ UNCHANGED segments

\* Line 161.
Transcribe(r) ==
    /\ pc[r] = "transcribe"
    /\ \/ TranscribeNoModel(r)
       \/ TranscribeModel(r)
       \/ TranscribeModelError(r)
    /\ UNCHANGED <<video_path, output_dir, fps, audio_zero, frame_count, video_fps,
                   alignment, written, dir_exists, audio_wav, frames,
                   alignment_json, metadata_json>>

\* extract_frames: ffmpeg writes frame_0000.jpg .. frame_<n-1>.jpg over existing
\* files; the count returned is that of the frame_*.jpg files then in the directory.
ExtractFramesRun(r) ==
    \E n \in 0..MaxFrames :
        /\ Goto(r, "probe_fps")
        /\ frames' = [frames EXCEPT ![output_dir[r]] = Max(@, n)]
        /\ Returned(r, "extract_frames", frames'[output_dir[r]])
        /\ frame_count' = [frame_count EXCEPT ![r] = frames'[output_dir[r]]]

\* Mutant of ExtractFramesError: the error is swallowed and the run goes on
\* with no frames.
ExtractFramesError_swallowed(r) ==
    /\ Goto(r, "probe_fps")
    /\ Logged(r, "extract_frames", "raised")
    /\ frame_count' = [frame_count EXCEPT ![r] = 0]
    /\ UNCHANGED frames

\* extract_frames: ffmpeg raises.
ExtractFramesError(r) ==
    /\ Raise(r, "RuntimeError")
    /\ Logged(r, "extract_frames", "raised")
    /\ UNCHANGED <<frames, frame_count>>

\* Line 165.
ExtractFrames(r) ==
    /\ pc[r] = "extract_frames"
    /\ \/ ExtractFramesRun(r)
       \/ ExtractFramesError(r)
    /\ UNCHANGED <<video_path, output_dir, fps, audio_zero, segments, video_fps,
                   alignment, written, dir_exists, audio_wav,
                   alignment_json, metadata_json>>

\* get_video_fps: ffmpeg.probe raises.
ProbeFpsError(r) ==
    /\ Raise(r, "RuntimeError")
    /\ Logged(r, "get_video_fps", "raised")
    /\ UNCHANGED video_fps

\* get_video_fps, lines 41-55.
ProbeFpsRun(r) ==
    LET video_streams == VideoStreams(VideoFiles[video_path[r]].probe)
    IN  IF video_streams = <<>>
        THEN /\ Raise(r, "RuntimeError")
             /\ Logged(r, "get_video_fps", "raised")
             /\ UNCHANGED video_fps
        ELSE /\ Goto(r, "align")
             /\ Logged(r, "get_video_fps", "ok")
             /\ video_fps' = [video_fps EXCEPT ![r] = FpsOfStream(video_streams[1])]

\* Line 166.
ProbeFps(r) ==
    /\ pc[r] = "probe_fps"
    /\ \/ ProbeFpsError(r)
       \/ ProbeFpsRun(r)
    /\ UNCHANGED <<video_path, output_dir, fps, audio_zero, segments, frame_count,
                   alignment, written, dir_exists, audio_wav, frames,
                   alignment_json, metadata_json>>

\* Lines 168-175: whether the alignment engine is called.
CallsEngine(segs) == segs # <<>>

\* Lines 168-175.
Align(r) ==
    /\ pc[r] = "align"
    /\ Goto(r, "open_alignment")
    /\ IF CallsEngine(segments[r])
       THEN /\ alignment' = [alignment EXCEPT ![r] =
                                align_frames_to_transcript(segments[r], video_fps[r], fps[r])]
            /\ Logged(r, "align_frames_to_transcript", "ok")
       ELSE /\ alignment' = [alignment EXCEPT ![r] = <<>>]
            /\ UNCHANGED log
    /\ UNCHANGED <<video_path, output_dir, fps, audio_zero, segments, frame_count,
                   video_fps, written, dir_exists, audio_wav, frames,
                   alignment_json, metadata_json>>

\* Whether the JSON text of new can be shorter than the text of old.  Equal
\* values have the same text and the text of empty ("[]") is shorter than any
\* other; the lengths of other texts are not modelled, either may be the shorter.
ShorterText(new, old, empty) ==
    IF new = old THEN {FALSE}
    ELSE IF new = empty THEN {TRUE}
    ELSE IF old = empty THEN {FALSE}
    ELSE BOOLEAN

\* The file after run r, having opened it, writes the text of content from
\* offset 0 and closes it.  Whatever another run wrote through its own handle
\* since r's open is overwritten as far as r's text reaches; the rest stays.
Dumped(file, r, content, empty) ==
    {[state |-> IF tail THEN "mixed" ELSE "written", writer |-> r, content |-> content] :
        tail \in CASE file.state = "empty" -> {FALSE}
                   [] file.state = "written" -> ShorterText(content, file.content, empty)
                   [] OTHER -> BOOLEAN}

\* The file after the write of run r fails with the text of text written in
\* part.  Nothing may have reached the file, or only bytes equal to those already
\* there: the file is as it was.  Otherwise an empty file holds the beginning of
\* the text; a file with other bytes has its start overwritten, which needs the
\* text to differ from the one the file starts with, and to be longer than "[]"
\* (every text of a list starts with "[", and of "[]" no more can be written).
FailedDump(file, r, text, empty) ==
    {file}
    \cup (IF file.state = "empty"
          THEN {[state |-> "partial", writer |-> r, content |-> empty]}
          ELSE IF text # empty
                  /\ ~(file.state \in {"written", "mixed"} /\ file.content = text)
               THEN {[state |-> "overlaid", writer |-> r, content |-> empty]}
               ELSE {})

\* Line 178: open(..., "w") creates the file or truncates it.
OpenAlignmentDone(r) ==
    /\ Goto(r, "write_alignment")
    /\ alignment_json' = [alignment_json EXCEPT ![output_dir[r]] =
                             [state |-> "empty", writer |-> r, content |-> <<>>]]
    /\ UNCHANGED log

\* Line 178: open raises; the file is untouched.
OpenAlignmentError(r) ==
    /\ Raise(r, "OSError")
    /\ Logged(r, "write_alignment", "raised")
    /\ UNCHANGED alignment_json

OpenAlignment(r) ==
    /\ pc[r] = "open_alignment"
    /\ \/ OpenAlignmentDone(r)
       \/ OpenAlignmentError(r)
    /\ UNCHANGED <<video_path, output_dir, fps, audio_zero, segments, frame_count,
                   video_fps, alignment, written, dir_exists, audio_wav, frames,
                   metadata_json>>

\* Lines 178-179: json.dump fills the handle's buffer and leaving the with block
\* writes it out in one piece (a text shorter than the buffer) and closes the
\* file.
WriteAlignmentDone(r) ==
    /\ Goto(r, "open_metadata")
    /\ Returned(r, "write_alignment", alignment[r])
    /\ written' = [written EXCEPT ![r] = @ \cup {"alignment.json"}]
    /\ \E file \in Dumped(alignment_json[output_dir[r]], r, alignment[r], <<>>) :
          alignment_json' = [alignment_json EXCEPT ![output_dir[r]] = file]

\* Mutant of WriteAlignmentError: the error is swallowed and the metadata is
\* written all the same.
WriteAlignmentError_continues(r) ==
    /\ Goto(r, "open_metadata")
    /\ Logged(r, "write_alignment", "raised")
    /\ UNCHANGED <<written, alignment_json>>

\* Lines 178-179: json.dump or the closing write raises; part of the text may
\* have reached the file.
WriteAlignmentError(r) ==
    /\ Raise(r, "OSError")
    /\ Logged(r, "write_alignment", "raised")
    /\ UNCHANGED written
    /\ \E file \in FailedDump(alignment_json[output_dir[r]], r, alignment[r], <<>>) :
          alignment_json' = [alignment_json EXCEPT ![output_dir[r]] = file]

WriteAlignment(r) ==
    /\ pc[r] = "write_alignment"
    /\ \/ WriteAlignmentDone(r)
       \/ WriteAlignmentError(r)
    /\ UNCHANGED <<video_path, output_dir, fps, audio_zero, segments, frame_count,
                   video_fps, alignment, dir_exists, audio_wav, frames, metadata_json>>

\* Mutant of Metadata: extraction_fps is the default rate, not the run's.
Metadata_defaultFps(r) ==
    [video_path |-> video_path[r],
     audio_path |-> output_dir[r],
     frame_dir |-> output_dir[r],
     frame_count |-> frame_count[r],
     video_fps |-> video_fps[r],
     extraction_fps |-> FpsDen]

\* Lines 182-189.
Metadata(r) ==
    [video_path |-> video_path[r],
     audio_path |-> output_dir[r],
     frame_dir |-> output_dir[r],
     frame_count |-> frame_count[r],
     video_fps |-> video_fps[r],
     extraction_fps |-> fps[r]]

\* Line 190: open(..., "w") creates the file or truncates it.
OpenMetadataDone(r) ==
    /\ Goto(r, "write_metadata")
    /\ metadata_json' = [metadata_json EXCEPT ![output_dir[r]] =
                            [state |-> "empty", writer |-> r, content |-> NoMetadata]]
    /\ UNCHANGED log

\* Line 190: open raises; the file is untouched.
OpenMetadataError(r) ==
    /\ Raise(r, "OSError")
    /\ Logged(r, "write_metadata", "raised")
    /\ UNCHANGED metadata_json

OpenMetadata(r) ==
    /\ pc[r] = "open_metadata"
    /\ \/ OpenMetadataDone(r)
       \/ OpenMetadataError(r)
    /\ UNCHANGED <<video_path, output_dir, fps, audio_zero, segments, frame_count,
                   video_fps, alignment, written, dir_exists, audio_wav, frames,
                   alignment_json>>

\* Lines 190-193: json.dump and the closing write succeed, then return alignment.
WriteMetadataDone(r) ==
    /\ Goto(r, "completed")
    /\ Returned(r, "write_metadata", Metadata(r))
    /\ written' = [written EXCEPT ![r] = @ \cup {"metadata.json"}]
    /\ \E file \in Dumped(metadata_json[output_dir[r]], r, Metadata(r), NoMetadata) :
          metadata_json' = [metadata_json EXCEPT ![output_dir[r]] = file]

\* Lines 190-191: json.dump or the closing write raises; part of the text may
\* have reached the file.
WriteMetadataError(r) ==
    /\ Raise(r, "OSError")
    /\ Logged(r, "write_metadata", "raised")
    /\ UNCHANGED written
    /\ \E file \in FailedDump(metadata_json[output_dir[r]], r, Metadata(r), NoMetadata) :
          metadata_json' = [metadata_json EXCEPT ![output_dir[r]] = file]

WriteMetadata(r) ==
    /\ pc[r] = "write_metadata"
    /\ \/ WriteMetadataDone(r)
       \/ WriteMetadataError(r)
    /\ UNCHANGED <<video_path, output_dir, fps, audio_zero, segments, frame_count,
                   video_fps, alignment, dir_exists, audio_wav, frames, alignment_json>>

-----------------------------------------------------------------------------
(* Direct calls, idle while process_video is checked *)

AlignIdle ==
    /\ a_pc = "idle"
    /\ a_segments = <<>>
    /\ a_video_fps = <<>>
    /\ a_extraction_fps = 0
    /\ a_result = <<>>

SrtIdle ==
    /\ s_pc = "idle"
    /\ s_file = NoAlignmentFile
    /\ s_alignment = <<>>
    /\ s_error = "none"
    /\ s_lines = <<>>

PipelineIdle ==
    /\ pc = [r \in Runs |-> "idle"]
    /\ video_path = [r \in Runs |-> "missing.mp4"]
    /\ output_dir = [r \in Runs |-> "out1"]
    /\ fps = [r \in Runs |-> FpsDen]
    /\ audio_zero = [r \in Runs |-> "unknown"]
    /\ segments = [r \in Runs |-> <<>>]
    /\ frame_count = [r \in Runs |-> 0]
    /\ video_fps = [r \in Runs |-> Rat(0, 1)]
    /\ alignment = [r \in Runs |-> <<>>]
    /\ error = [r \in Runs |-> "none"]
    /\ log = [r \in Runs |-> <<>>]
    /\ written = [r \in Runs |-> {}]
    /\ dir_exists = [d \in Dirs |-> FALSE]
    /\ audio_wav = [d \in Dirs |-> NoFile]
    /\ frames = [d \in Dirs |-> 0]
    /\ alignment_json = [d \in Dirs |-> NoAlignmentFile]
    /\ metadata_json = [d \in Dirs |-> NoMetadataFile]

-----------------------------------------------------------------------------
(* The pipeline: two runs of process_video, on the same or on different *)
(* output directories, interleaved at their calls and file operations.  *)

PipelineInit ==
    /\ pc = [r \in Runs |-> "validate"]
    /\ video_path \in [Runs -> Videos]
    /\ output_dir \in {f \in [Runs -> Dirs] : f["r1"] = "out1"}
    /\ fps \in [Runs -> FpsValues]
    /\ audio_zero = [r \in Runs |-> "unknown"]
    /\ segments = [r \in Runs |-> <<>>]
    /\ frame_count = [r \in Runs |-> 0]
    /\ video_fps = [r \in Runs |-> Rat(0, 1)]
    /\ alignment = [r \in Runs |-> <<>>]
    /\ error = [r \in Runs |-> "none"]
    /\ log = [r \in Runs |-> <<>>]
    /\ written = [r \in Runs |-> {}]
    /\ dir_exists = [d \in Dirs |-> FALSE]
    /\ audio_wav = [d \in Dirs |-> NoFile]
    /\ frames = [d \in Dirs |-> 0]
    /\ alignment_json = [d \in Dirs |-> NoAlignmentFile]
    /\ metadata_json = [d \in Dirs |-> NoMetadataFile]

Init == PipelineInit /\ AlignIdle /\ SrtIdle

\* The next statement of run r.
Step(r) ==
    \/ Validate(r)
    \/ ExtractAudio(r)
    \/ StatAudio(r)
    \/ Transcribe(r)
    \/ ExtractFrames(r)
    \/ ProbeFps(r)
    \/ Align(r)
    \/ OpenAlignment(r)
    \/ WriteAlignment(r)
    \/ OpenMetadata(r)
    \/ WriteMetadata(r)

Next ==
    \/ \E r \in Runs : Validate(r) /\ UNCHANGED <<avars, svars>>
    \/ \E r \in Runs : ExtractAudio(r) /\ UNCHANGED <<avars, svars>>
    \/ \E r \in Runs : StatAudio(r) /\ UNCHANGED <<avars, svars>>
    \/ \E r \in Runs : Transcribe(r) /\ UNCHANGED <<avars, svars>>
    \/ \E r \in Runs : ExtractFrames(r) /\ UNCHANGED <<avars, svars>>
    \/ \E r \in Runs : ProbeFps(r) /\ UNCHANGED <<avars, svars>>
    \/ \E r \in Runs : Align(r) /\ UNCHANGED <<avars, svars>>
    \/ \E r \in Runs : OpenAlignment(r) /\ UNCHANGED <<avars, svars>>
    \/ \E r \in Runs : WriteAlignment(r) /\ UNCHANGED <<avars, svars>>
    \/ \E r \in Runs : OpenMetadata(r) /\ UNCHANGED <<avars, svars>>
    \/ \E r \in Runs : WriteMetadata(r) /\ UNCHANGED <<avars, svars>>

Spec == Init /\ [][Next]_vars

-----------------------------------------------------------------------------
(* Reading a run's history *)

\* The positions in the run's log of calls of name.
CallsOf(r, name) == {i \in 1..Len(log[r]) : log[r][i].call = name}

Called(r, name) == CallsOf(r, name) # {}

CalledOk(r, name) == \E i \in CallsOf(r, name) : log[r][i].outcome = "ok"

RaisedIn(r, name) == \E i \in CallsOf(r, name) : log[r][i].outcome = "raised"

\* What the ok call of name returned or wrote.
ResultOf(r, name) ==
    log[r][CHOOSE i \in CallsOf(r, name) : log[r][i].outcome = "ok"].result

\* No other run targets the run's output directory.
SoleWriter(r) == \A q \in Runs \ {r} : output_dir[q] # output_dir[r]

\* The stages in their fixed order, by the calls that make them up.
StageRank(name) ==
    CASE name = "mkdir" -> 1
      [] name = "extract_audio" -> 2
      [] name = "whisper" -> 3
      [] name = "transcribe_audio" -> 4
      [] name = "extract_frames" -> 5
      [] name = "get_video_fps" -> 6
      [] name = "align_frames_to_transcript" -> 7
      [] name = "write_alignment" -> 8
      [] name = "write_metadata" -> 9

PersistCalls == {"write_alignment", "write_metadata"}

-----------------------------------------------------------------------------
(* Claims about process_video *)

\* C2: a run that finds the extracted audio empty does not fail for it: it goes
\* on to the frame sampler with an empty transcript and never invokes the speech
\* model; until it ends it always has a next step to take, and it can only fail
\* by an error of the sampler, the prober or a persist write; and when it
\* completes it returned and wrote the empty alignment, and wrote as
\* frame_count the count the frame sampler returned to it; alignment.json then
\* holds the empty list and nothing else if no other run targets the directory.
C2_EmptyAudioRun ==
    \A r \in Runs :
        audio_zero[r] = "zero" =>
            /\ ~Called(r, "whisper")
            /\ ~Called(r, "transcribe_audio")
            /\ segments[r] = <<>>
            /\ pc[r] = "extract_frames" \/ Called(r, "extract_frames")
            /\ pc[r] \notin {"completed", "failed"} => ENABLED Step(r)
            /\ pc[r] = "failed" =>
                  /\ log[r][Len(log[r])].outcome = "raised"
                  /\ log[r][Len(log[r])].call \in
                        {"extract_frames", "get_video_fps"} \cup PersistCalls
            /\ pc[r] = "completed" =>
                  /\ alignment[r] = <<>>
                  /\ CalledOk(r, "write_alignment")
                  /\ ResultOf(r, "write_alignment") = <<>>
                  /\ CalledOk(r, "extract_frames")
                  /\ CalledOk(r, "write_metadata")
                  /\ ResultOf(r, "write_metadata").frame_count
                        = ResultOf(r, "extract_frames")
                  /\ alignment_json[output_dir[r]].writer = r
                        => alignment_json[output_dir[r]].content = <<>>
                  /\ SoleWriter(r) =>
                        alignment_json[output_dir[r]] =
                            [state |-> "written", writer |-> r, content |-> <<>>]

\* C2 witness: a run found the audio empty, sampled a frame and completed.
C2_Witness ==
    \E r \in Runs :
        /\ audio_zero[r] = "zero"
        /\ pc[r] = "completed"
        /\ frame_count[r] > 0
        /\ alignment_json[output_dir[r]] =
              [state |-> "written", writer |-> r, content |-> <<>>]

\* The transcript sequence the Transcriber produced for the run: what
\* transcribe_audio returned, empty when it was not called.
TranscriptOf(r) ==
    IF CalledOk(r, "transcribe_audio") THEN ResultOf(r, "transcribe_audio") ELSE <<>>

\* C3: in a completed run the alignment returned, which is the one written (and
\* the one alignment.json holds if no other run targets the directory), has as
\* many entries as the transcript, and it is empty exactly when the audio was
\* found empty or transcribe_audio returned no segments.
C3_AlignmentLength ==
    \A r \in Runs :
        pc[r] = "completed" =>
            /\ Len(alignment[r]) = Len(TranscriptOf(r))
            /\ ResultOf(r, "write_alignment") = alignment[r]
            /\ SoleWriter(r) =>
                  alignment_json[output_dir[r]] =
                      [state |-> "written", writer |-> r, content |-> alignment[r]]
            /\ alignment[r] = <<>> <=>
                  \/ audio_zero[r] = "zero"
                  \/ CalledOk(r, "transcribe_audio") /\ ResultOf(r, "transcribe_audio") = <<>>

\* C3 witness: a completed run whose transcript and alignment have three entries.
C3_Witness ==
    \E r \in Runs :
        /\ pc[r] = "completed"
        /\ Len(TranscriptOf(r)) = 3
        /\ Len(alignment[r]) = 3
        /\ Len(alignment_json[output_dir[r]].content) = 3

\* C4 (as claimed): a run given a non-positive sampling rate makes no call,
\* creates nothing and computes no entries, and a run on an existing video ends
\* with a ConfigurationError.
C4_RejectsNonPositiveFps ==
    \A r \in Runs :
        fps[r] <= 0 =>
            /\ log[r] = <<>>
            /\ written[r] = {}
            /\ alignment[r] = <<>>
            /\ pc[r] \in {"validate", "failed"}
            /\ (pc[r] = "failed" /\ VideoFiles[video_path[r]].exists)
                  => error[r] = "ConfigurationError"

\* C5: the calls of a run follow the fixed stage order, each made at most once;
\* a call that raises is the last the run makes and leaves the run failed with
\* that exception; a run that failed before the persist step wrote neither
\* file; a missing video fails the run with a not-found error before the
\* directory is created or anything is called.
C5_StagesHaltOnFailure ==
    \A r \in Runs :
        /\ \A i, j \in 1..Len(log[r]) :
              i < j => /\ StageRank(log[r][i].call) < StageRank(log[r][j].call)
                       /\ log[r][i].outcome = "ok"
        /\ pc[r] = "failed" <=> error[r] # "none"
        /\ (log[r] # <<>> /\ log[r][Len(log[r])].outcome = "raised") => pc[r] = "failed"
        /\ (pc[r] = "failed" /\ ~Called(r, "write_alignment")) =>
              /\ written[r] = {}
              /\ ~Called(r, "write_metadata")
              /\ \A d \in Dirs : /\ alignment_json[d].writer # r
                                 /\ metadata_json[d].writer # r
        /\ (pc[r] = "failed" /\ VideoFiles[video_path[r]].exists) =>
              (log[r] # <<>> /\ log[r][Len(log[r])].outcome = "raised")
        /\ ~VideoFiles[video_path[r]].exists =>
              /\ log[r] = <<>>
              /\ pc[r] \in {"validate", "failed"}
              /\ pc[r] = "failed" => error[r] = "FileNotFoundError"
              /\ SoleWriter(r) => ~dir_exists[output_dir[r]]

\* C5 witness: a run failed in the frame sampler after extracting and
\* transcribing audio, and made no later call.
C5_Witness ==
    \E r \in Runs :
        /\ pc[r] = "failed"
        /\ CalledOk(r, "whisper")
        /\ log[r][Len(log[r])] = Call("extract_frames", "raised", 0)

\* C9: alignment.json is written before metadata.json; the run completes exactly
\* when both writes succeeded; a failed alignment write fails the run with no
\* metadata write; a failed metadata write fails the run and leaves the
\* alignment it wrote in place (alignment.json holds exactly that alignment if no
\* other run targets the directory); each write is attempted at most once.
C9_PersistOrder ==
    \A r \in Runs :
        LET d == output_dir[r] IN
        /\ Called(r, "write_metadata") => CalledOk(r, "write_alignment")
        /\ "metadata.json" \in written[r] => "alignment.json" \in written[r]
        /\ pc[r] = "completed" <=> written[r] = {"alignment.json", "metadata.json"}
        /\ Cardinality(CallsOf(r, "write_alignment")) <= 1
        /\ Cardinality(CallsOf(r, "write_metadata")) <= 1
        /\ RaisedIn(r, "write_alignment") =>
              /\ pc[r] = "failed" /\ error[r] = "OSError"
              /\ written[r] = {}
              /\ ~Called(r, "write_metadata")
              /\ metadata_json[d].writer # r
        /\ RaisedIn(r, "write_metadata") =>
              /\ pc[r] = "failed" /\ error[r] = "OSError"
              /\ written[r] = {"alignment.json"}
              /\ alignment_json[d].writer = r =>
                    /\ alignment_json[d].state \in {"written", "mixed"}
                    /\ alignment_json[d].content = alignment[r]
              /\ SoleWriter(r) =>
                    alignment_json[d] =
                        [state |-> "written", writer |-> r, content |-> alignment[r]]

\* C9 witness: the metadata write failed after the alignment write succeeded, and
\* the non-empty alignment is still in alignment.json.
C9_Witness ==
    \E r \in Runs :
        /\ RaisedIn(r, "write_metadata")
        /\ alignment[r] # <<>>
        /\ alignment_json[output_dir[r]] =
              [state |-> "written", writer |-> r, content |-> alignment[r]]

\* Whether the entry's frame indices are the ones the rate rate (in 1/FpsDen fps)
\* gives for the entry's times.
FramesAtRate(entry, rate) ==
    LET sf == Max(0, Floor(entry.start_time * rate, TimeDen * FpsDen))
    IN  /\ entry.start_frame = sf
        /\ entry.end_frame = Max(sf, Floor(entry.end_time * rate, TimeDen * FpsDen))

\* C10: nothing locks the output directory. A completed run that alone targets
\* its directory leaves there the alignment.json and the metadata.json it wrote,
\* and they agree: every entry carries the metadata's video_fps and frame
\* indices computed at the metadata's extraction_fps. Files in a directory are
\* only ever written by runs targeting it. (That two runs sharing a directory
\* can both complete and leave one's alignment.json beside the other's
\* metadata.json is the reachability of C10_Witness.)
C10_SingleWriterConsistent ==
    /\ \A d \in Dirs :
          /\ alignment_json[d].writer # "none" => output_dir[alignment_json[d].writer] = d
          /\ metadata_json[d].writer # "none" => output_dir[metadata_json[d].writer] = d
    /\ \A r \in Runs :
          (pc[r] = "completed" /\ SoleWriter(r)) =>
              LET a == alignment_json[output_dir[r]]
                  m == metadata_json[output_dir[r]]
              IN  /\ a = [state |-> "written", writer |-> r, content |-> alignment[r]]
                  /\ m.state = "written" /\ m.writer = r
                  /\ m.content.extraction_fps = fps[r]
                  /\ m.content.video_fps = video_fps[r]
                  /\ \A i \in 1..Len(a.content) :
                        /\ a.content[i].video_fps = m.content.video_fps
                        /\ FramesAtRate(a.content[i], m.content.extraction_fps)

\* C10 witness: two runs on the same directory both completed; alignment.json is
\* the one written by one of them and metadata.json the one written by the
\* other, and an entry's video_fps differs from the metadata's.
C10_Witness ==
    \E r, q \in Runs :
        /\ r # q
        /\ output_dir[r] = output_dir[q]
        /\ pc[r] = "completed" /\ pc[q] = "completed"
        /\ alignment_json[output_dir[r]] =
              [state |-> "written", writer |-> r, content |-> alignment[r]]
        /\ metadata_json[output_dir[r]] =
              [state |-> "written", writer |-> q, content |-> ResultOf(q, "write_metadata")]
        /\ alignment[r] # <<>>
        /\ alignment[r][1].video_fps # metadata_json[output_dir[r]].content.video_fps

-----------------------------------------------------------------------------
(* Direct calls of align_frames_to_transcript: the same segments and         *)
(* extraction_fps, called twice with two values of video_fps.                *)

\* Times range over -MaxTime..MaxTime (in 1/TimeDen s), rates over
\* -MaxFps..MaxFps (in 1/FpsDen fps), sequences have up to MaxSegs segments.
MaxTime == 8
MaxFps == 4
MaxSegs == 3

\* Segments for the sequences: out of order, one with end_time < start_time, two
\* with the same text.
SampleSegments ==
    \* the texts are "hi", "yo", "hi"
    {[text |-> <<104, 105>>, start_time |-> 6, end_time |-> 10],
     [text |-> <<121, 111>>, start_time |-> 5, end_time |-> 3],
     [text |-> <<104, 105>>, start_time |-> 0, end_time |-> 1]}

RECURSIVE SeqsUpTo(_, _)
SeqsUpTo(S, n) ==
    IF n = 0 THEN {<<>>}
    ELSE LET shorter == SeqsUpTo(S, n - 1)
         IN  shorter \cup {Append(q, x) : q \in shorter, x \in S}

AlignInputs ==
    {<<[text |-> <<97>>, start_time |-> st, end_time |-> et]>> :
        st \in -MaxTime..MaxTime, et \in -MaxTime..MaxTime}
    \cup SeqsUpTo(SampleSegments, MaxSegs)

VideoFpsPairs == {<<Rat(30, 1), Rat(24, 1)>>, <<Rat(30000, 1001), Rat(2, 1)>>}

AlignInit ==
    /\ a_pc = "ready"
    /\ a_segments \in AlignInputs
    /\ a_video_fps \in VideoFpsPairs
    /\ a_extraction_fps \in -MaxFps..MaxFps
    /\ a_result = <<>>
    /\ PipelineIdle
    /\ SrtIdle

AlignFirstCall ==
    /\ a_pc = "ready"
    /\ a_pc' = "once"
    /\ a_result' = <<align_frames_to_transcript(a_segments, a_video_fps[1],
                                                a_extraction_fps)>>
    /\ UNCHANGED <<a_segments, a_video_fps, a_extraction_fps, pvars, svars>>

AlignSecondCall ==
    /\ a_pc = "once"
    /\ a_pc' = "twice"
    /\ a_result' = Append(a_result,
                          align_frames_to_transcript(a_segments, a_video_fps[2],
                                                     a_extraction_fps))
    /\ UNCHANGED <<a_segments, a_video_fps, a_extraction_fps, pvars, svars>>

AlignNext == AlignFirstCall \/ AlignSecondCall

SpecAlign == AlignInit /\ [][AlignNext]_vars

-----------------------------------------------------------------------------
(* Direct calls of alignment_to_srt on a path where there is no file, an     *)
(* alignment file of one or two entries, or a file that is not valid JSON.   *)

\* Timestamps lie within Window steps of 1/2048 s around chosen instants.
Window == 2

\* Timestamps num/2048 around whole seconds up to 100 hours, and around instants
\* 62.5 ms and 562.5 ms later (whose milliseconds are exact ties); the decimal
\* timestamps 75.34, 59.9995 and 3599.9996; and 0.0005, 0.5015 and 2.0005,
\* decimal ties whose doubles times 1000 fall on, below and above the tie.
Timestamps ==
    {[num |-> sec * 2048 + off + k, den |-> 2048] :
        sec \in {0, 1, 59, 60, 3599, 3600, 360000}, off \in {0, 128, 1152},
        k \in -Window..Window}
    \cup {[num |-> 7534, den |-> 100],
          [num |-> 599995, den |-> 10000],
          [num |-> 35999996, den |-> 10000],
          [num |-> 5, den |-> 10000],
          [num |-> 5015, den |-> 10000],
          [num |-> 20005, den |-> 10000]}

\* The texts are "\t hi" followed by U+2003, and a vertical tab; those of the
\* two-entry alignment are "a" and "b".
SrtInputs ==
    {<<[text |-> tx, start_time |-> st, end_time |-> et]>> :
        tx \in {<<9, 32, 104, 105, 8195>>, <<11>>},
        st \in {t \in Timestamps : t.num >= 0},
        et \in {t \in Timestamps : t.num >= 0 /\ t.den = 2048 /\ t.num % 128 = 0}}
    \cup {<<[text |-> <<97>>, start_time |-> [num |-> 3, den |-> 2],
             end_time |-> [num |-> 5, den |-> 2]],
            [text |-> <<98>>, start_time |-> [num |-> 7534, den |-> 100],
             end_time |-> [num |-> 599995, den |-> 10000]]>>}

\* What can be at alignment_json_path: nothing, a file process_video wrote, or a
\* file left empty, mixed or partial by its writers.
SrtFiles ==
    {NoAlignmentFile}
    \cup {[state |-> "written", writer |-> "none", content |-> a] : a \in SrtInputs}
    \cup {[state |-> st, writer |-> "none", content |-> <<>>] :
            st \in {"empty", "mixed", "partial"}}

SrtInit ==
    /\ s_pc = "ready"
    /\ s_file \in SrtFiles
    /\ s_alignment = <<>>
    /\ s_error = "none"
    /\ s_lines = <<>>
    /\ PipelineIdle
    /\ AlignIdle

\* Lines 41-42: there is no file at alignment_json_path.
SrtNotFound ==
    /\ s_pc = "ready"
    /\ s_file.state = "absent"
    /\ s_pc' = "failed"
    /\ s_error' = "FileNotFoundError"
    /\ UNCHANGED <<s_file, s_alignment, s_lines, pvars, avars>>

\* Lines 44-45: json.load raises on a text that is not valid JSON.
SrtLoadError ==
    /\ s_pc = "ready"
    /\ s_file.state \in {"empty", "mixed", "partial"}
    /\ s_pc' = "failed"
    /\ s_error' = "JSONDecodeError"
    /\ UNCHANGED <<s_file, s_alignment, s_lines, pvars, avars>>

\* Lines 44-58: the file is loaded and the subtitle lines are written.
AlignmentToSrt ==
    /\ s_pc = "ready"
    /\ s_file.state = "written"
    /\ s_pc' = "written"
    /\ s_alignment' = s_file.content
    /\ s_lines' = SrtLines(s_file.content)
    /\ UNCHANGED <<s_file, s_error, pvars, avars>>

SrtNext == SrtNotFound \/ SrtLoadError \/ AlignmentToSrt

SpecSrt == SrtInit /\ [][SrtNext]_vars

-----------------------------------------------------------------------------
(* Claims about align_frames_to_transcript *)

\* The entries of the first call.
FirstResult == a_result[1]

\* C1: for every segment and every extraction_fps, the entry has
\* start_frame = max(0, floor(start_time * extraction_fps)) and
\* end_frame = max(start_frame, floor(end_time * extraction_fps)); both are the
\* plain floors when 0 <= start_time <= end_time and extraction_fps > 0; and
\* always 0 <= start_frame <= end_frame.
C1_FrameIndices ==
    a_pc # "ready" =>
        \A i \in 1..Len(a_segments) :
            LET seg == a_segments[i]
                entry == FirstResult[i]
                fs == Floor(seg.start_time * a_extraction_fps, TimeDen * FpsDen)
                fe == Floor(seg.end_time * a_extraction_fps, TimeDen * FpsDen)
            IN  /\ entry.start_frame = Max(0, fs)
                /\ entry.end_frame = Max(entry.start_frame, fe)
                /\ (0 <= seg.start_time /\ seg.start_time <= seg.end_time
                        /\ a_extraction_fps > 0)
                      => entry.start_frame = fs /\ entry.end_frame = fe
                /\ 0 <= entry.start_frame
                /\ entry.start_frame <= entry.end_frame

\* C1 witness: a segment that ends before it starts, at a positive rate, got
\* end_frame clamped up to a positive start_frame.
C1_Witness ==
    /\ a_pc # "ready"
    /\ a_extraction_fps > 0
    /\ Len(a_segments) = 1
    /\ a_segments[1].end_time < 0
    /\ a_segments[1].start_time = MaxTime
    /\ FirstResult[1].start_frame > 0
    /\ FirstResult[1].end_frame = FirstResult[1].start_frame

\* C6: the output has one entry per segment, and the i-th entry carries the
\* text, start_time and end_time of the i-th segment.
C6_OrderAndLength ==
    a_pc # "ready" =>
        /\ Len(FirstResult) = Len(a_segments)
        /\ \A i \in 1..Len(a_segments) :
              /\ FirstResult[i].text = a_segments[i].text
              /\ FirstResult[i].start_time = a_segments[i].start_time
              /\ FirstResult[i].end_time = a_segments[i].end_time

\* C6 witness: three segments, not sorted by start_time, two of them equal.
C6_Witness ==
    /\ a_pc # "ready"
    /\ Len(a_segments) = 3
    /\ Len(FirstResult) = 3
    /\ a_segments[1].start_time > a_segments[2].start_time
    /\ a_segments[2] = a_segments[3]

\* C7: two calls with the same segments and extraction_fps and different
\* video_fps agree in every field of every entry but video_fps, which in each
\* output is the value passed in.
C7_VideoFpsIgnored ==
    a_pc = "twice" =>
        /\ Len(a_result[1]) = Len(a_result[2])
        /\ \A i \in 1..Len(a_result[1]) :
              /\ a_result[1][i].video_fps = a_video_fps[1]
              /\ a_result[2][i].video_fps = a_video_fps[2]
              /\ [a_result[1][i] EXCEPT !.video_fps = Rat(0, 1)]
                    = [a_result[2][i] EXCEPT !.video_fps = Rat(0, 1)]

\* C7 witness: both calls were made with different video_fps and gave a positive
\* end_frame.
C7_Witness ==
    /\ a_pc = "twice"
    /\ a_video_fps[1] # a_video_fps[2]
    /\ a_result[1] # <<>>
    /\ a_result[1][1].end_frame > 0
    /\ a_result[2][1].end_frame = a_result[1][1].end_frame

-----------------------------------------------------------------------------
(* Claims about the subtitle timing *)

IsDigit(c) == \E d \in 0..9 : DigitChar(d) = c

DigitValue(c) == CHOOSE d \in 0..9 : DigitChar(d) = c

RECURSIVE Number(_)
Number(s) == IF s = <<>> THEN 0 ELSE 10 * Number(SubSeq(s, 1, Len(s) - 1)) + DigitValue(s[Len(s)])

AllDigits(s) == \A i \in 1..Len(s) : IsDigit(s[i])

\* " --> "
Arrow == <<32, 45, 45, 62, 32>>

\* The two tokens of the timing line "start --> end".
TimingTokens(line) ==
    LET k == CHOOSE j \in 1..(Len(line) - 4) : SubSeq(line, j, j + 4) = Arrow
    IN  <<SubSeq(line, 1, k - 1), SubSeq(line, k + 5, Len(line))>>

\* The fields of a token HH:MM:SS,mmm, read from its end.
TokenFields(token) ==
    LET n == Len(token)
    IN  [hh |-> SubSeq(token, 1, n - 10), mm |-> SubSeq(token, n - 8, n - 7),
         ss |-> SubSeq(token, n - 5, n - 4), ms |-> SubSeq(token, n - 2, n),
         seps |-> <<token[n - 9], token[n - 6], token[n - 3]>>]

\* The token has the shape HH:MM:SS,mmm, each field of digits and in range.
WellFormedToken(token) ==
    /\ Len(token) >= 12
    /\ LET f == TokenFields(token)
       IN  /\ f.seps = <<58, 58, 44>>   \* ":", ":", ","
           /\ AllDigits(f.hh) /\ AllDigits(f.mm) /\ AllDigits(f.ss) /\ AllDigits(f.ms)
           /\ Number(f.mm) < 60 /\ Number(f.ss) < 60 /\ Number(f.ms) < 1000

\* The token re-parsed, in milliseconds.
TokenMillis(token) ==
    LET f == TokenFields(token)
    IN  3600000 * Number(f.hh) + 60000 * Number(f.mm) + 1000 * Number(f.ss) + Number(f.ms)

\* ms is a whole number of milliseconds nearest to the timestamp t.
NearestMillis(ms, t) ==
    LET whole == t.num \div t.den
        part == (ms - 1000 * whole) * t.den - 1000 * (t.num % t.den)
    IN  /\ ms - 1000 * whole \in 0..1000
        /\ 2 * part <= t.den
        /\ -2 * part <= t.den

\* C8: for every non-negative start and end time of an entry, the timing line
\* holds two well-formed tokens HH:MM:SS,mmm which re-parse to a millisecond
\* nearest to the time (at an exact tie, to either neighbour); 75.34 s gives
\* 00:01:15,340.
C8_TimingRoundTrip ==
    s_pc = "written" =>
        \A i \in 1..Len(s_alignment) :
            LET tokens == TimingTokens(s_lines[4 * (i - 1) + 2])
            IN  /\ WellFormedToken(tokens[1])
                /\ WellFormedToken(tokens[2])
                /\ NearestMillis(TokenMillis(tokens[1]), s_alignment[i].start_time)
                /\ NearestMillis(TokenMillis(tokens[2]), s_alignment[i].end_time)
                /\ s_alignment[i].start_time = [num |-> 7534, den |-> 100] =>
                      \* "00:01:15,340"
                      tokens[1] = <<48, 48, 58, 48, 49, 58, 49, 53, 44, 51, 52, 48>>

\* C8 witness: 59.9995 s was rendered with the carry into the minutes, as
\* 00:01:00,000.
C8_Witness ==
    /\ s_pc = "written"
    /\ s_alignment[1].start_time = [num |-> 599995, den |-> 10000]
    /\ TimingTokens(s_lines[2])[1]   \* "00:01:00,000"
          = <<48, 48, 58, 48, 49, 58, 48, 48, 44, 48, 48, 48>>

====
